---- MODULE Spec2Model ----
(***************************************************************************)
(* A model of src/experimentation/data_processors.py: the join of every    *)
(* treatment row to its control row (ExperimentSummaryStats), the z-test   *)
(* metrics (DFABTestProcessor) and the p-value, significance flag, colour  *)
(* and uplift confidence interval (ABDataProcessor).                       *)
(*                                                                         *)
(* A DataFrame is a sequence of rows; a row is a function from the column  *)
(* names it has to values.  A float64 is a record: k is "fin", "nan",      *)
(* "pinf" or "ninf", and v is the value in units of 1/Scale (fixed point,  *)
(* every operation rounded to the nearest unit, as float64 rounds to the   *)
(* nearest representable number).  DataFrames live in a heap of named      *)
(* locations, so that `self.df = df.copy()` and `return self.df` are a     *)
(* copy and an alias as in the source.                                     *)
(***************************************************************************)
EXTENDS Integers, Sequences, FiniteSets, TLC

VARIABLES kpi, heap, joined, dfp, processed, ab, ret, op, arg, err

vars == <<kpi, heap, joined, dfp, processed, ab, ret, op, arg, err>>

-----------------------------------------------------------------------------
(* float64 arithmetic, in fixed point                                      *)

\* One unit of the fixed-point grid is 1/Scale; Base * Base = Scale.
Scale == 10^6

Base == 10^3

Fin(n) == [k |-> "fin", v |-> n]

NaN == [k |-> "nan", v |-> 0]

PInf == [k |-> "pinf", v |-> 0]

NInf == [k |-> "ninf", v |-> 0]

IsFin(x) == x.k = "fin"

IsNaN(x) == x.k = "nan"

Abs(n) == IF n < 0 THEN -n ELSE n

\* -1, 0 or 1: the sign of a float (an infinity has the sign of its kind).
Sgn(x) ==
  CASE x.k = "pinf" -> 1
    [] x.k = "ninf" -> -1
    [] x.k = "nan" -> 0
    [] OTHER -> IF x.v > 0 THEN 1 ELSE IF x.v < 0 THEN -1 ELSE 0

SignedInf(s) == IF s > 0 THEN PInf ELSE IF s < 0 THEN NInf ELSE NaN

FNeg(x) ==
  CASE x.k = "pinf" -> NInf
    [] x.k = "ninf" -> PInf
    [] x.k = "nan" -> NaN
    [] OTHER -> Fin(-x.v)

\* x + y: nan absorbs, inf + (-inf) is nan.
FAdd(x, y) ==
  CASE IsNaN(x) \/ IsNaN(y) -> NaN
    [] IsFin(x) /\ IsFin(y) -> Fin(x.v + y.v)
    [] IsFin(x) -> y
    [] IsFin(y) -> x
    [] OTHER -> IF x.k = y.k THEN x ELSE NaN

FSub(x, y) == FAdd(x, FNeg(y))

\* |a| * |b| / Scale for naturals a, b, rounded to the nearest unit; the
\* product is taken in halves of Base so that no intermediate value leaves
\* the range of the checker's integers.
MulMag(a, b) ==
  LET ah == a \div Base
      al == a % Base
      bh == b \div Base
      bl == b % Base
  IN  ah * bh + ((ah * bl + al * bh + ((al * bl + Scale \div 2) \div Base)) \div Base)

\* x * y: nan absorbs, inf * 0 is nan.
FMul(x, y) ==
  CASE IsNaN(x) \/ IsNaN(y) -> NaN
    [] IsFin(x) /\ IsFin(y) ->
         Fin(Sgn(x) * Sgn(y) * MulMag(Abs(x.v), Abs(y.v)))
    [] OTHER -> SignedInf(Sgn(x) * Sgn(y))

\* The next `n` decimal digits of r / b (0 <= r < b), as a natural.
RECURSIVE FracDigits(_, _, _)
FracDigits(r, b, n) ==
  IF n = 0 THEN 0
  ELSE ((r * 10) \div b) * 10^(n - 1) + FracDigits((r * 10) % b, b, n - 1)

\* The remainder left after those digits.
RECURSIVE FracRem(_, _, _)
FracRem(r, b, n) == IF n = 0 THEN r ELSE FracRem((r * 10) % b, b, n - 1)

\* |a| * Scale / |b| for naturals a and b > 0, rounded to the nearest unit,
\* by long division.
DivMag(a, b) ==
  LET q == (a \div b) * Scale + FracDigits(a % b, b, 6)
      r == FracRem(a % b, b, 6)
  IN  IF 2 * r >= b THEN q + 1 ELSE q

\* x / y as numpy divides: x / 0 is +-inf (0 / 0 is nan), never an exception.
FDiv(x, y) ==
  CASE IsNaN(x) \/ IsNaN(y) -> NaN
    [] IsFin(x) /\ IsFin(y) ->
         IF y.v = 0 THEN SignedInf(Sgn(x))
         ELSE Fin(Sgn(x) * Sgn(y) * DivMag(Abs(x.v), Abs(y.v)))
    [] IsFin(x) -> Fin(0)
    [] IsFin(y) -> SignedInf(Sgn(x) * (IF y.v < 0 THEN -1 ELSE 1))
    [] OTHER -> NaN

\* r * r <= n * Scale for naturals r and n, the square taken in halves of
\* Base.
SqLe(r, n) ==
  LET rh == r \div Base
      rl == r % Base
      t == 2 * rh * rl + ((rl * rl) \div Base)
      hi == rh * rh + (t \div Base)
      exact == (t % Base = 0) /\ ((rl * rl) % Base = 0)
  IN  hi < n \/ (hi = n /\ exact)

\* The largest r in lo..hi with r * r <= n * Scale (bisection): the square
\* root of n / Scale in units of 1/Scale.
RECURSIVE SqrtMag(_, _, _)
SqrtMag(n, lo, hi) ==
  IF lo >= hi THEN lo
  ELSE LET mid == (lo + hi + 1) \div 2
       IN  IF SqLe(mid, n) THEN SqrtMag(n, mid, hi) ELSE SqrtMag(n, lo, mid - 1)

\* np.sqrt: nan for a negative number (a warning, not an exception).
FSqrt(x) ==
  CASE IsNaN(x) -> NaN
    [] x.k = "pinf" -> PInf
    [] x.k = "ninf" -> NaN
    [] OTHER -> IF x.v < 0 THEN NaN ELSE Fin(SqrtMag(x.v, 0, 46000 * Base))

\* Comparisons: every comparison with nan is false.
FLe(x, y) ==
  CASE IsNaN(x) \/ IsNaN(y) -> FALSE
    [] IsFin(x) /\ IsFin(y) -> x.v <= y.v
    [] OTHER -> x.k = "ninf" \/ y.k = "pinf"

FGe(x, y) == FLe(y, x)

FLt(x, y) ==
  CASE IsNaN(x) \/ IsNaN(y) -> FALSE
    [] OTHER -> FLe(x, y) /\ x # y

\* Series.round(dp): to the nearest multiple of 10^-dp, a half to the even
\* neighbour; nan and the infinities stay.
FRound(x, dp) ==
  IF ~IsFin(x) \/ 10^dp >= Scale THEN x
  ELSE LET u == Scale \div 10^dp
           m == Abs(x.v)
           q == m \div u
           r == m % u
           up == (2 * r > u) \/ (2 * r = u /\ q % 2 = 1)
       IN  Fin(Sgn(x) * (IF up THEN q + 1 ELSE q) * u)

\* scipy.stats.norm.cdf at z = 0.00, 0.01, ..., 5.01, in units of 1/Scale.
PhiTable ==
  << 
      500000, 503989, 507978, 511966, 515953, 519939, 523922, 527903, 531881, 535856,
      539828, 543795, 547758, 551717, 555670, 559618, 563559, 567495, 571424, 575345,
      579260, 583166, 587064, 590954, 594835, 598706, 602568, 606420, 610261, 614092,
      617911, 621720, 625516, 629300, 633072, 636831, 640576, 644309, 648027, 651732,
      655422, 659097, 662757, 666402, 670031, 673645, 677242, 680822, 684386, 687933,
      691462, 694974, 698468, 701944, 705401, 708840, 712260, 715661, 719043, 722405,
      725747, 729069, 732371, 735653, 738914, 742154, 745373, 748571, 751748, 754903,
      758036, 761148, 764238, 767305, 770350, 773373, 776373, 779350, 782305, 785236,
      788145, 791030, 793892, 796731, 799546, 802337, 805105, 807850, 810570, 813267,
      815940, 818589, 821214, 823814, 826391, 828944, 831472, 833977, 836457, 838913,
      841345, 843752, 846136, 848495, 850830, 853141, 855428, 857690, 859929, 862143,
      864334, 866500, 868643, 870762, 872857, 874928, 876976, 879000, 881000, 882977,
      884930, 886861, 888768, 890651, 892512, 894350, 896165, 897958, 899727, 901475,
      903200, 904902, 906582, 908241, 909877, 911492, 913085, 914657, 916207, 917736,
      919243, 920730, 922196, 923641, 925066, 926471, 927855, 929219, 930563, 931888,
      933193, 934478, 935745, 936992, 938220, 939429, 940620, 941792, 942947, 944083,
      945201, 946301, 947384, 948449, 949497, 950529, 951543, 952540, 953521, 954486,
      955435, 956367, 957284, 958185, 959070, 959941, 960796, 961636, 962462, 963273,
      964070, 964852, 965620, 966375, 967116, 967843, 968557, 969258, 969946, 970621,
      971283, 971933, 972571, 973197, 973810, 974412, 975002, 975581, 976148, 976705,
      977250, 977784, 978308, 978822, 979325, 979818, 980301, 980774, 981237, 981691,
      982136, 982571, 982997, 983414, 983823, 984222, 984614, 984997, 985371, 985738,
      986097, 986447, 986791, 987126, 987455, 987776, 988089, 988396, 988696, 988989,
      989276, 989556, 989830, 990097, 990358, 990613, 990863, 991106, 991344, 991576,
      991802, 992024, 992240, 992451, 992656, 992857, 993053, 993244, 993431, 993613,
      993790, 993963, 994132, 994297, 994457, 994614, 994766, 994915, 995060, 995201,
      995339, 995473, 995604, 995731, 995855, 995975, 996093, 996207, 996319, 996427,
      996533, 996636, 996736, 996833, 996928, 997020, 997110, 997197, 997282, 997365,
      997445, 997523, 997599, 997673, 997744, 997814, 997882, 997948, 998012, 998074,
      998134, 998193, 998250, 998305, 998359, 998411, 998462, 998511, 998559, 998605,
      998650, 998694, 998736, 998777, 998817, 998856, 998893, 998930, 998965, 998999,
      999032, 999065, 999096, 999126, 999155, 999184, 999211, 999238, 999264, 999289,
      999313, 999336, 999359, 999381, 999402, 999423, 999443, 999462, 999481, 999499,
      999517, 999534, 999550, 999566, 999581, 999596, 999610, 999624, 999638, 999651,
      999663, 999675, 999687, 999698, 999709, 999720, 999730, 999740, 999749, 999758,
      999767, 999776, 999784, 999792, 999800, 999807, 999815, 999822, 999828, 999835,
      999841, 999847, 999853, 999858, 999864, 999869, 999874, 999879, 999883, 999888,
      999892, 999896, 999900, 999904, 999908, 999912, 999915, 999918, 999922, 999925,
      999928, 999931, 999933, 999936, 999938, 999941, 999943, 999946, 999948, 999950,
      999952, 999954, 999956, 999958, 999959, 999961, 999963, 999964, 999966, 999967,
      999968, 999970, 999971, 999972, 999973, 999974, 999975, 999976, 999977, 999978,
      999979, 999980, 999981, 999982, 999983, 999983, 999984, 999985, 999985, 999986,
      999987, 999987, 999988, 999988, 999989, 999989, 999990, 999990, 999991, 999991,
      999991, 999992, 999992, 999993, 999993, 999993, 999993, 999994, 999994, 999994,
      999995, 999995, 999995, 999995, 999996, 999996, 999996, 999996, 999996, 999996,
      999997, 999997, 999997, 999997, 999997, 999997, 999997, 999998, 999998, 999998,
      999998, 999998, 999998, 999998, 999998, 999998, 999998, 999998, 999999, 999999,
      999999, 999999, 999999, 999999, 999999, 999999, 999999, 999999, 999999, 999999,
      999999, 999999, 999999, 999999, 999999, 999999, 999999, 999999, 999999, 999999,
      1000000, 1000000, 1000000, 1000000, 1000000, 1000000, 1000000, 1000000, 1000000, 1000000,
      1000000, 1000000 >>

\* norm.cdf of a non-negative z given in units of 1/Scale: the table,
\* interpolated linearly between its points and rounded to the nearest unit.
PhiMag(z) ==
  IF z >= 5 * Scale THEN Scale
  ELSE LET i == z \div 10000
           r == z % 10000
           lo == PhiTable[i + 1]
           hi == PhiTable[i + 2]
       IN  lo + (((hi - lo) * r + 5000) \div 10000)

\* scipy.stats.norm.cdf(x).
NormCdf(x) ==
  CASE IsNaN(x) -> NaN
    [] x.k = "pinf" -> Fin(Scale)
    [] x.k = "ninf" -> Fin(0)
    [] OTHER -> IF x.v >= 0 THEN Fin(PhiMag(x.v)) ELSE Fin(Scale - PhiMag(-x.v))

\* scipy.stats.norm.ppf(confidence_level) for the levels the model passes.
NormPpf(cl) ==
  CASE cl = 100000 -> Fin(-1281552)
    [] cl = 500000 -> Fin(0)
    [] cl = 900000 -> Fin(1281552)
    [] cl = 950000 -> Fin(1644854)
    [] OTHER -> NaN

-----------------------------------------------------------------------------
(* DataFrames                                                              *)

\* df[c] = value on every row: the column is added or overwritten.
SetCol(row, c, v) == (c :> v) @@ row

\* Whether every column of `cols` is a column of the DataFrame.
HasCols(df, cols) == \A i \in 1..Len(df) : cols \subseteq DOMAIN df[i]

\* The outcome of a method body: the DataFrame as it stands and "ok", or
\* "KeyError" from the first access to a column that is not there.
Ok(df) == [df |-> df, err |-> "ok"]

KeyError(df) == [df |-> df, err |-> "KeyError"]

\* The next statement (its outcome on res.df is `next`) runs only if the one
\* before did not raise.
Then(res, next) == IF res.err = "ok" THEN next ELSE res

\* df[c] = vals: the column is added or overwritten on every row.
WithCol(df, c, vals) == [i \in 1..Len(df) |-> SetCol(df[i], c, vals[i])]

\* A DataFrame without column c (what a caller hands over when the column
\* was never produced).
DropCol(df, c) ==
  [i \in 1..Len(df) |-> [x \in (DOMAIN df[i]) \ {c} |-> df[i][x]]]

RECURSIVE Concat(_)
Concat(ss) == IF ss = <<>> THEN <<>> ELSE Head(ss) \o Concat(Tail(ss))

-----------------------------------------------------------------------------
(* ExperimentSummaryStats.join_control_to_variant                          *)

IsControl(r) == r["VARIANT_DEFAULT"] = 1

IsVariant(r) == r["VARIANT_DEFAULT"] = 0

\* One output row of the merge: the left row with its overlapping columns
\* suffixed _EXP and the right row's suffixed _CONTROL.
MergedRow(l, m, v, c) ==
  [ VARIANT_NAME |-> l["VARIANT_NAME"],
    VARIANT_DEFAULT |-> l["VARIANT_DEFAULT"],
    KPI |-> l["KPI"],
    mean_EXP |-> l["mean"],
    var_EXP |-> l["var"],
    count_EXP |-> l["count"],
    mean_CONTROL |-> m,
    var_CONTROL |-> v,
    count_CONTROL |-> c ]

\* A merge with how="inner": a left row without a match yields no row.
InnerJoinRow(l, right) ==
  LET matches == SelectSeq(right, LAMBDA r : r["KPI"] = l["KPI"])
  IN  [j \in 1..Len(matches) |->
         MergedRow(l, matches[j]["mean"], matches[j]["var"], matches[j]["count"])]

\* The rows a left row yields under how="left": one per right row with the
\* same KPI, in the right's order, or one with null (nan) right columns.
LeftJoinRow(l, right) ==
  LET matches == SelectSeq(right, LAMBDA r : r["KPI"] = l["KPI"])
  IN  IF matches = <<>> THEN << MergedRow(l, NaN, NaN, NaN) >>
      ELSE [j \in 1..Len(matches) |->
              MergedRow(l, matches[j]["mean"], matches[j]["var"], matches[j]["count"])]

\* pd.merge(left=variant_df, right=control_df[...], on=["KPI"], how="left").
MergeLeft(left, right) ==
  Concat([i \in 1..Len(left) |-> LeftJoinRow(left[i], right)])

join_control_to_variant(experiment_kpi_df) ==
  LET control_df == SelectSeq(experiment_kpi_df, IsControl)
      variant_df == SelectSeq(experiment_kpi_df, IsVariant)
  IN  MergeLeft(variant_df, control_df)

-----------------------------------------------------------------------------
(* DFABTestProcessor                                                       *)

One == Fin(Scale)

\* var_CONTROL / count_CONTROL + var_EXP / count_EXP
PooledVarianceTest(x) ==
  FAdd(FDiv(x["var_CONTROL"], x["count_CONTROL"]), FDiv(x["var_EXP"], x["count_EXP"]))

\* (var_CONTROL * (count_CONTROL - 1) + var_EXP * (count_EXP - 1))
\*   / (count_CONTROL + count_EXP - 2)
PooledVarianceCI(x) ==
  FDiv(FAdd(FMul(x["var_CONTROL"], FSub(x["count_CONTROL"], One)),
            FMul(x["var_EXP"], FSub(x["count_EXP"], One))),
       FSub(FAdd(x["count_CONTROL"], x["count_EXP"]), Fin(2 * Scale)))

\* The difference taken the other way round: control minus treatment.
ZScoreSwapped(x) ==
  FDiv(FSub(x["mean_CONTROL"], x["mean_EXP"]), FSqrt(x["POOLED_VARIANCE"]))

\* (mean_EXP - mean_CONTROL) / sqrt(POOLED_VARIANCE)
ZScore(x) ==
  FDiv(FSub(x["mean_EXP"], x["mean_CONTROL"]), FSqrt(x["POOLED_VARIANCE"]))

\* (mean_EXP - mean_CONTROL) / mean_CONTROL
TreatmentUplift(x) ==
  FDiv(FSub(x["mean_EXP"], x["mean_CONTROL"]), x["mean_CONTROL"])

VarCountCols == {"var_CONTROL", "count_CONTROL", "var_EXP", "count_EXP"}

SetPooledVariance(df) ==
  IF ~HasCols(df, VarCountCols) THEN KeyError(df)
  ELSE Ok(WithCol(df, "POOLED_VARIANCE",
                  [i \in 1..Len(df) |-> PooledVarianceTest(df[i])]))

SetPooledVarianceCI(df) ==
  IF ~HasCols(df, VarCountCols) THEN KeyError(df)
  ELSE Ok(WithCol(df, "_POOLED_VARIANCE",
                  [i \in 1..Len(df) |-> PooledVarianceCI(df[i])]))

SetZScore(df) ==
  IF ~HasCols(df, {"mean_EXP", "mean_CONTROL", "POOLED_VARIANCE"}) THEN KeyError(df)
  ELSE Ok(WithCol(df, "Z_SCORE", [i \in 1..Len(df) |-> ZScore(df[i])]))

SetTreatmentUplift(df) ==
  IF ~HasCols(df, {"mean_EXP", "mean_CONTROL"}) THEN KeyError(df)
  ELSE Ok(WithCol(df, "TREATMENT_UPLIFT", [i \in 1..Len(df) |-> TreatmentUplift(df[i])]))

\* get_metrics: four column assignments on the DataFrame it is given, in
\* place; the first that raises leaves the earlier ones done.
get_metrics(df) ==
  LET s1 == SetPooledVariance(df)
      s2 == Then(s1, SetPooledVarianceCI(s1.df))
      s3 == Then(s2, SetZScore(s2.df))
  IN  Then(s3, SetTreatmentUplift(s3.df))

col_mapping_dict(c) ==
  CASE c = "var_EXP" -> "TREATMENT_VARIANCE"
    [] c = "var_CONTROL" -> "CONTROL_VARIANCE"
    [] c = "mean_EXP" -> "TREATMENT_MEAN"
    [] c = "mean_CONTROL" -> "CONTROL_MEAN"
    [] c = "count_EXP" -> "TREATMENT_USERS"
    [] c = "count_CONTROL" -> "CONTROL_USERS"
    [] OTHER -> c

RenameRow(row) ==
  [n \in {col_mapping_dict(c) : c \in DOMAIN row} |->
     row[CHOOSE c \in DOMAIN row : col_mapping_dict(c) = n]]

\* df.rename(columns=col_mapping_dict): a new DataFrame; a name of the
\* mapping that is no column is skipped.
rename_df_cols(df) == [i \in 1..Len(df) |-> RenameRow(df[i])]

-----------------------------------------------------------------------------
(* ABDataProcessor                                                         *)

GRAY == "#CFCFC4"

GREEN == "#77DD77"

RED == "#FF6961"

\* The default confidence levels and rounding precision, in units of
\* 1/Scale (the levels) and decimal places.
DefaultTestLevel == 900000

DefaultCILevel == 950000

DefaultDp == 4

UpliftCICols == {"UPLIFT_LOWER_CI", "UPLIFT_UPPER_CI"}

\* The lower tail instead of the upper: norm.cdf(Z_SCORE).
PValueLowerTail(x) == NormCdf(x["Z_SCORE"])

\* 1 - norm.cdf(Z_SCORE)
PValue(x) == FSub(One, NormCdf(x["Z_SCORE"]))

calculate_p_value(df) ==
  IF ~HasCols(df, {"Z_SCORE"}) THEN KeyError(df)
  ELSE Ok(WithCol(df, "P_VALUE", [i \in 1..Len(df) |-> PValue(df[i])]))

\* P_VALUE < 1 - confidence_level: the boundary excluded.
SignificantStrict(p, confidence_level) == FLt(p, FSub(One, Fin(confidence_level)))

\* not (P_VALUE > 1 - confidence_level): true of a nan P_VALUE.
SignificantNotGreater(p, confidence_level) ==
  ~FLt(FSub(One, Fin(confidence_level)), p)

\* P_VALUE <= 1 - confidence_level
Significant(p, confidence_level) == FLe(p, FSub(One, Fin(confidence_level)))

is_statistically_significant(df, confidence_level) ==
  IF ~HasCols(df, {"P_VALUE"}) THEN KeyError(df)
  ELSE Ok(WithCol(df, "IS_STATISTICALLY_SIGNIFICANT",
                  [i \in 1..Len(df) |-> Significant(df[i]["P_VALUE"], confidence_level)]))

\* The columns color_utility_func reads on a row: Z_SCORE only when the
\* first test fails.
ColorReads(x) ==
  IF "IS_STATISTICALLY_SIGNIFICANT" \notin DOMAIN x
    THEN {"IS_STATISTICALLY_SIGNIFICANT"}
    ELSE IF x["IS_STATISTICALLY_SIGNIFICANT"] = FALSE
           THEN {"IS_STATISTICALLY_SIGNIFICANT"}
           ELSE {"IS_STATISTICALLY_SIGNIFICANT", "Z_SCORE"}

\* The sign of Z_SCORE tested before the significance flag.
color_by_sign_first(x) ==
  IF FGe(x["Z_SCORE"], Fin(0)) THEN GREEN
  ELSE IF x["IS_STATISTICALLY_SIGNIFICANT"] = FALSE THEN GRAY
  ELSE RED

color_utility_func(x) ==
  IF x["IS_STATISTICALLY_SIGNIFICANT"] = FALSE THEN GRAY
  ELSE IF FGe(x["Z_SCORE"], Fin(0)) THEN GREEN
  ELSE RED

color_statistically_significant(df) ==
  IF \E i \in 1..Len(df) : ~(ColorReads(df[i]) \subseteq DOMAIN df[i])
    THEN KeyError(df)
    ELSE Ok(WithCol(df, "COLOR", [i \in 1..Len(df) |-> color_utility_func(df[i])]))

\* sqrt(_POOLED_VARIANCE * (1 / TREATMENT_USERS + 1 / CONTROL_USERS))
CIHalfWidth(x) ==
  FSqrt(FMul(x["_POOLED_VARIANCE"],
             FAdd(FDiv(One, x["TREATMENT_USERS"]), FDiv(One, x["CONTROL_USERS"]))))

UpperCI(x, ci_constant) ==
  FAdd(FSub(x["TREATMENT_MEAN"], x["CONTROL_MEAN"]), FMul(ci_constant, x["CI_HALF_WIDTH"]))

LowerCI(x, ci_constant) ==
  FSub(FSub(x["TREATMENT_MEAN"], x["CONTROL_MEAN"]), FMul(ci_constant, x["CI_HALF_WIDTH"]))

\* UPPER_CI / CONTROL_MEAN
UpliftUpperCI(x) == FDiv(x["UPPER_CI"], x["CONTROL_MEAN"])

\* LOWER_CI / CONTROL_MEAN
UpliftLowerCI(x) == FDiv(x["LOWER_CI"], x["CONTROL_MEAN"])

SetCIHalfWidth(df) ==
  IF ~HasCols(df, {"_POOLED_VARIANCE", "TREATMENT_USERS", "CONTROL_USERS"})
    THEN KeyError(df)
    ELSE Ok(WithCol(df, "CI_HALF_WIDTH", [i \in 1..Len(df) |-> CIHalfWidth(df[i])]))

SetUpperCI(df, ci_constant) ==
  IF ~HasCols(df, {"TREATMENT_MEAN", "CONTROL_MEAN", "CI_HALF_WIDTH"}) THEN KeyError(df)
  ELSE Ok(WithCol(df, "UPPER_CI", [i \in 1..Len(df) |-> UpperCI(df[i], ci_constant)]))

SetLowerCI(df, ci_constant) ==
  IF ~HasCols(df, {"TREATMENT_MEAN", "CONTROL_MEAN", "CI_HALF_WIDTH"}) THEN KeyError(df)
  ELSE Ok(WithCol(df, "LOWER_CI", [i \in 1..Len(df) |-> LowerCI(df[i], ci_constant)]))

SetUpliftUpperCI(df) ==
  IF ~HasCols(df, {"UPPER_CI", "CONTROL_MEAN"}) THEN KeyError(df)
  ELSE Ok(WithCol(df, "UPLIFT_UPPER_CI", [i \in 1..Len(df) |-> UpliftUpperCI(df[i])]))

SetUpliftLowerCI(df) ==
  IF ~HasCols(df, {"LOWER_CI", "CONTROL_MEAN"}) THEN KeyError(df)
  ELSE Ok(WithCol(df, "UPLIFT_LOWER_CI", [i \in 1..Len(df) |-> UpliftLowerCI(df[i])]))

calculate_uplift_confidence_interval(df, confidence_level) ==
  LET ci_constant == NormPpf(confidence_level)
      s1 == SetCIHalfWidth(df)
      s2 == Then(s1, SetUpperCI(s1.df, ci_constant))
      s3 == Then(s2, SetLowerCI(s2.df, ci_constant))
      s4 == Then(s3, SetUpliftUpperCI(s3.df))
  IN  Then(s4, SetUpliftLowerCI(s4.df))

\* self.df[cols] = self.df[cols].round(dp)
round_cols(df, cols, dp) ==
  IF ~HasCols(df, cols) THEN KeyError(df)
  ELSE Ok([i \in 1..Len(df) |->
             [c \in DOMAIN df[i] |->
                IF c \in cols THEN FRound(df[i][c], dp) ELSE df[i][c]]])

\* process_data: the five steps with their defaults.
process_data(df) ==
  LET s1 == calculate_p_value(df)
      s2 == Then(s1, is_statistically_significant(s1.df, DefaultTestLevel))
      s3 == Then(s2, color_statistically_significant(s2.df))
      s4 == Then(s3, calculate_uplift_confidence_interval(s3.df, DefaultCILevel))
  IN  Then(s4, round_cols(s4.df, UpliftCICols, DefaultDp))

-----------------------------------------------------------------------------
(* The inputs                                                              *)

\* The most rows of the wide table (experiment_kpi_df).
MaxRows == 3

\* The variants of the experiment with their VARIANT_DEFAULT flag, and the
\* metrics, in the order the pivot's index sorts them.
Variants == << <<"control", 1>>, <<"control_b", 1>>, <<"treatment", 0>> >>

Metrics == << "k1", "k2" >>

NKeys == Len(Variants) * Len(Metrics)

Stat(mean, var, count) == [mean |-> Fin(mean), var |-> Fin(var), count |-> Fin(count)]

\* The statistics of the control rows (c) and of the treatment rows (t) of
\* an experiment, in units of 1/Scale.
Scenarios ==
  { [c |-> Stat(10000000, 4000000, 100000000), t |-> Stat(11000000, 5000000, 100000000)],
    [c |-> Stat(10000000, 4000000, 100000000), t |-> Stat(9000000, 5000000, 100000000)],
    [c |-> Stat(10000000, 4000000, 100000000), t |-> Stat(10000000, 5000000, 100000000)],
    [c |-> Stat(10000000, 4000000, 100000000), t |-> Stat(9700000, 5000000, 100000000)],
    [c |-> Stat(-10000000, 4000000, 100000000), t |-> Stat(-9000000, 5000000, 100000000)],
    [c |-> Stat(10000000, 1000000, 2000000), t |-> Stat(9999999, 1000000, 2000000)],
    [c |-> Stat(0, 0, 1000000), t |-> Stat(1000000, 0, 1000000)] }

\* The wide row of the i-th key: a second control variant differs from the
\* first in its mean.
WideRow(i, sc) ==
  LET v == Variants[((i - 1) \div Len(Metrics)) + 1]
      m == Metrics[((i - 1) % Len(Metrics)) + 1]
      st == IF v[2] = 1 THEN sc.c ELSE sc.t
  IN  [ VARIANT_NAME |-> v[1],
        VARIANT_DEFAULT |-> v[2],
        KPI |-> m,
        mean |-> IF v[1] = "control_b" THEN FAdd(st.mean, One) ELSE st.mean,
        var |-> st.var,
        count |-> st.count ]

\* The keys of S in index order.
RECURSIVE SortedSeq(_)
SortedSeq(S) ==
  IF S = {} THEN <<>>
  ELSE LET lo == CHOOSE x \in S : \A y \in S : x <= y
       IN  <<lo>> \o SortedSeq(S \ {lo})

WideTable(S, sc) == LET ks == SortedSeq(S) IN [j \in 1..Len(ks) |-> WideRow(ks[j], sc)]

\* The wide tables transform_summary_statistics can produce: one row per
\* (variant, metric) key, sorted by key.
InputTables ==
  { WideTable(S, sc) :
      S \in {T \in SUBSET (1..NKeys) : Cardinality(T) \in 1..MaxRows},
      sc \in Scenarios }

\* The confidence levels callers pass, in units of 1/Scale.
TestLevels == {100000, 500000, DefaultTestLevel}

CILevels == {100000, DefaultCILevel}

\* The columns a caller's table may lack.
JoinedOmissions == {"mean_EXP", "var_CONTROL"}

ProcessedOmissions == {"Z_SCORE", "CONTROL_USERS"}

-----------------------------------------------------------------------------
(* The state machine                                                       *)

\* heap: the DataFrame at each location; a location is allocated when a
\* reference to it exists.
\*   joined     the DataFrame join_control_to_variant returned
\*   dfp        DFABTestProcessor.df
\*   processed  the DataFrame process_df returned
\*   ab         ABDataProcessor.df
\*   ret        the DataFrame process_data returned
Locs == {"joined", "dfp", "processed", "ab"}

Init ==
  /\ kpi \in InputTables
  /\ heap = [l \in Locs |-> <<>>]
  /\ joined = "none"
  /\ dfp = "none"
  /\ processed = "none"
  /\ ab = "none"
  /\ ret = "none"
  /\ op = "init"
  /\ arg = 0
  /\ err = "ok"

\* ExperimentSummaryStats.join_control_to_variant(experiment_kpi_df)
JoinControlToVariant ==
  /\ joined = "none"
  /\ heap' = [heap EXCEPT !["joined"] = join_control_to_variant(kpi)]
  /\ joined' = "joined"
  /\ op' = "join_control_to_variant"
  /\ arg' = 0
  /\ err' = "ok"
  /\ UNCHANGED <<kpi, dfp, processed, ab, ret>>

\* The caller hands DFABTestProcessor a table that lacks column c.
JoinedOmitsColumn(c) ==
  /\ joined # "none"
  /\ dfp = "none"
  /\ heap[joined] # <<>>
  /\ HasCols(heap[joined], JoinedOmissions)
  /\ heap' = [heap EXCEPT ![joined] = DropCol(heap[joined], c)]
  /\ op' = "omit_column"
  /\ arg' = 0
  /\ err' = "ok"
  /\ UNCHANGED <<kpi, joined, dfp, processed, ab, ret>>

\* DFABTestProcessor.__init__(df): self.df = df.copy()
DFABTestProcessorInit(h, src) == [ref |-> "dfp", heap |-> [h EXCEPT !["dfp"] = h[src]]]

NewDFABTestProcessor ==
  /\ joined # "none"
  /\ dfp = "none"
  /\ heap[joined] # <<>>
  /\ LET new == DFABTestProcessorInit(heap, joined)
     IN  /\ heap' = new.heap
         /\ dfp' = new.ref
  /\ op' = "DFABTestProcessor"
  /\ arg' = 0
  /\ err' = "ok"
  /\ UNCHANGED <<kpi, joined, processed, ab, ret>>

\* DFABTestProcessor.process_df(): get_metrics changes self.df in place;
\* rename_df_cols returns a new DataFrame.
ProcessDf ==
  /\ dfp # "none"
  /\ ab = "none"
  /\ LET res == get_metrics(heap[dfp])
     IN  /\ heap' = IF res.err = "ok"
                      THEN [heap EXCEPT ![dfp] = res.df,
                                        !["processed"] = rename_df_cols(res.df)]
                      ELSE [heap EXCEPT ![dfp] = res.df]
         /\ processed' = IF res.err = "ok" THEN "processed" ELSE processed
         /\ err' = res.err
  /\ op' = "process_df"
  /\ arg' = 0
  /\ UNCHANGED <<kpi, joined, dfp, ab, ret>>

\* The caller hands ABDataProcessor a table that lacks column c.
ProcessedOmitsColumn(c) ==
  /\ processed # "none"
  /\ ab = "none"
  /\ HasCols(heap[processed], ProcessedOmissions)
  /\ heap' = [heap EXCEPT ![processed] = DropCol(heap[processed], c)]
  /\ op' = "omit_column"
  /\ arg' = 0
  /\ err' = "ok"
  /\ UNCHANGED <<kpi, joined, dfp, processed, ab, ret>>

\* self.df = df, without the copy: the processor works on the caller's table.
ABDataProcessorInitAlias(h, src) == [ref |-> src, heap |-> h]

\* ABDataProcessor.__init__(df): self.df = df.copy()
ABDataProcessorInit(h, src) == [ref |-> "ab", heap |-> [h EXCEPT !["ab"] = h[src]]]

NewABDataProcessor ==
  /\ processed # "none"
  /\ ab = "none"
  /\ LET new == ABDataProcessorInit(heap, processed)
     IN  /\ heap' = new.heap
         /\ ab' = new.ref
  /\ op' = "ABDataProcessor"
  /\ arg' = 0
  /\ err' = "ok"
  /\ UNCHANGED <<kpi, joined, dfp, processed, ret>>

\* A method of ABDataProcessor: its body's outcome is written to self.df.
ABMethod(name, a, res) ==
  /\ heap' = [heap EXCEPT ![ab] = res.df]
  /\ err' = res.err
  /\ op' = name
  /\ arg' = a
  /\ UNCHANGED <<kpi, joined, dfp, processed, ab>>

CalculatePValue ==
  /\ ab # "none"
  /\ ABMethod("calculate_p_value", 0, calculate_p_value(heap[ab]))
  /\ UNCHANGED ret

IsStatisticallySignificant(confidence_level) ==
  /\ ab # "none"
  /\ ABMethod("is_statistically_significant", confidence_level,
              is_statistically_significant(heap[ab], confidence_level))
  /\ UNCHANGED ret

ColorStatisticallySignificant ==
  /\ ab # "none"
  /\ ABMethod("color_statistically_significant", 0,
              color_statistically_significant(heap[ab]))
  /\ UNCHANGED ret

CalculateUpliftConfidenceInterval(confidence_level) ==
  /\ ab # "none"
  /\ ABMethod("calculate_uplift_confidence_interval", confidence_level,
              calculate_uplift_confidence_interval(heap[ab], confidence_level))
  /\ UNCHANGED ret

RoundCols ==
  /\ ab # "none"
  /\ ABMethod("round_cols", DefaultDp, round_cols(heap[ab], UpliftCICols, DefaultDp))
  /\ UNCHANGED ret

\* process_data returns self.df: the caller then holds the processor's own
\* DataFrame (a call that raises returns nothing).
ProcessData ==
  /\ ab # "none"
  /\ LET res == process_data(heap[ab])
     IN  /\ ABMethod("process_data", 0, res)
         /\ ret' = IF res.err = "ok" THEN ab ELSE ret

Next ==
  \/ JoinControlToVariant
  \/ \E c \in JoinedOmissions : JoinedOmitsColumn(c)
  \/ NewDFABTestProcessor
  \/ ProcessDf
  \/ \E c \in ProcessedOmissions : ProcessedOmitsColumn(c)
  \/ NewABDataProcessor
  \/ CalculatePValue
  \/ \E cl \in TestLevels : IsStatisticallySignificant(cl)
  \/ ColorStatisticallySignificant
  \/ \E cl \in CILevels : CalculateUpliftConfidenceInterval(cl)
  \/ RoundCols
  \/ ProcessData

Spec == Init /\ [][Next]_vars

-----------------------------------------------------------------------------
(* The claims                                                              *)

ABTable == heap[ab]

Negative(x) == x.k = "ninf" \/ (x.k = "fin" /\ x.v < 0)

NonNegative(x) == x.k = "pinf" \/ (x.k = "fin" /\ x.v >= 0)

\* The row's control statistics are null: the join found no control row.
NullControl(x) ==
  IsNaN(x["CONTROL_MEAN"]) /\ IsNaN(x["CONTROL_VARIANCE"]) /\ IsNaN(x["CONTROL_USERS"])

\* The columns the Significance Engine reads of the table it is given.
EngineInputCols ==
  { "TREATMENT_MEAN", "TREATMENT_VARIANCE", "TREATMENT_USERS", "CONTROL_MEAN",
    "CONTROL_VARIANCE", "CONTROL_USERS", "POOLED_VARIANCE", "_POOLED_VARIANCE",
    "Z_SCORE", "TREATMENT_UPLIFT" }

ColorFresh ==
  /\ op \in {"color_statistically_significant", "process_data"}
  /\ err = "ok"

\* C1: on every row color_statistically_significant has processed, COLOR is
\* one of the three tokens: gray whenever the row is not significant,
\* whatever the sign of Z_SCORE; green iff significant and Z_SCORE >= 0; red
\* iff significant and Z_SCORE < 0.
C1_ColorClassification ==
  ColorFresh =>
    \A i \in 1..Len(ABTable) :
      LET x == ABTable[i]
          sig == x["IS_STATISTICALLY_SIGNIFICANT"]
      IN  /\ x["COLOR"] \in {GRAY, GREEN, RED}
          /\ (sig = FALSE) => x["COLOR"] = GRAY
          /\ (x["COLOR"] = GREEN) <=> (sig = TRUE /\ NonNegative(x["Z_SCORE"]))
          /\ (x["COLOR"] = RED) <=> (sig = TRUE /\ Negative(x["Z_SCORE"]))

\* A significant row with a negative Z_SCORE has been coloured red, next to
\* states where a row with a positive Z_SCORE is gray.
C1_Witness ==
  /\ op = "color_statistically_significant"
  /\ err = "ok"
  /\ \E i \in 1..Len(ABTable) :
       /\ ABTable[i]["COLOR"] = RED
       /\ ABTable[i]["IS_STATISTICALLY_SIGNIFICANT"] = TRUE
       /\ Negative(ABTable[i]["Z_SCORE"])

\* C2: after is_statistically_significant(confidence_level), on every row
\* IS_STATISTICALLY_SIGNIFICANT is true iff P_VALUE <= 1 - confidence_level,
\* a P_VALUE equal to the threshold counted as significant.
C2_SignificantIffBelowThreshold ==
  (op = "is_statistically_significant" /\ err = "ok") =>
    \A i \in 1..Len(ABTable) :
      LET p == ABTable[i]["P_VALUE"]
      IN  (ABTable[i]["IS_STATISTICALLY_SIGNIFICANT"] = TRUE)
            <=> (IsFin(p) /\ p.v <= Scale - arg)

\* A row whose P_VALUE equals the threshold exactly is flagged significant.
C2_Witness ==
  /\ op = "is_statistically_significant"
  /\ err = "ok"
  /\ \E i \in 1..Len(ABTable) :
       /\ ABTable[i]["P_VALUE"] = Fin(Scale - arg)
       /\ ABTable[i]["IS_STATISTICALLY_SIGNIFICANT"] = TRUE

\* calculate_p_value and then is_statistically_significant at the default
\* level have run (alone, or as the first steps of process_data).
DefaultTestDone ==
  \/ op = "is_statistically_significant" /\ arg = DefaultTestLevel /\ err = "ok"
  \/ op = "process_data" /\ err = "ok"

\* C3 as stated: every row with a negative Z_SCORE has, after
\* calculate_p_value and is_statistically_significant at 0.90, a P_VALUE
\* greater than 0.5 and is not significant.
C3_NegativeZAboveHalf ==
  DefaultTestDone =>
    \A i \in 1..Len(ABTable) :
      Negative(ABTable[i]["Z_SCORE"]) =>
        /\ ABTable[i]["P_VALUE"].v > Scale \div 2
        /\ ABTable[i]["IS_STATISTICALLY_SIGNIFICANT"] = FALSE

\* C3 amended: every row with a negative Z_SCORE has, after
\* calculate_p_value and is_statistically_significant at 0.90, a P_VALUE of
\* at least 0.5 and is not significant (a Z_SCORE below zero by less than
\* the spacing of the floats at 0.5 gives a P_VALUE of exactly 0.5).
C3_NegativeZNeverSignificant ==
  DefaultTestDone =>
    \A i \in 1..Len(ABTable) :
      Negative(ABTable[i]["Z_SCORE"]) =>
        /\ IsFin(ABTable[i]["P_VALUE"])
        /\ ABTable[i]["P_VALUE"].v >= Scale \div 2
        /\ ABTable[i]["P_VALUE"].v <= Scale
        /\ ABTable[i]["IS_STATISTICALLY_SIGNIFICANT"] = FALSE

\* A row with a negative Z_SCORE has been tested at the default level: its
\* P_VALUE is exactly 0.5 and it is not significant.
C3_Witness ==
  /\ op = "is_statistically_significant"
  /\ arg = DefaultTestLevel
  /\ err = "ok"
  /\ \E i \in 1..Len(ABTable) :
       /\ Negative(ABTable[i]["Z_SCORE"])
       /\ ABTable[i]["P_VALUE"] = Fin(Scale \div 2)
       /\ ABTable[i]["IS_STATISTICALLY_SIGNIFICANT"] = FALSE

\* The row of the scenario: control mean 10, variance 4, count 100;
\* treatment mean 9, variance 5, count 100.
IsScenarioRow(x) ==
  /\ x["CONTROL_MEAN"] = Fin(10 * Scale)
  /\ x["CONTROL_VARIANCE"] = Fin(4 * Scale)
  /\ x["CONTROL_USERS"] = Fin(100 * Scale)
  /\ x["TREATMENT_MEAN"] = Fin(9 * Scale)
  /\ x["TREATMENT_VARIANCE"] = Fin(5 * Scale)
  /\ x["TREATMENT_USERS"] = Fin(100 * Scale)

\* Z_SCORE is -3.33 to two places.
AboutMinus333(z) == IsFin(z) /\ z.v > -3340000 /\ z.v < -3330000

\* C4 as stated: process_df and then process_data with the default levels
\* give the scenario's row a negative Z_SCORE (about -3.33),
\* IS_STATISTICALLY_SIGNIFICANT = true and COLOR = red.
C4_ScenarioSignificantRed ==
  (op = "process_data" /\ err = "ok") =>
    \A i \in 1..Len(ABTable) :
      IsScenarioRow(ABTable[i]) =>
        /\ AboutMinus333(ABTable[i]["Z_SCORE"])
        /\ ABTable[i]["IS_STATISTICALLY_SIGNIFICANT"] = TRUE
        /\ ABTable[i]["COLOR"] = RED

\* C4 amended: process_df and then process_data with the default levels give
\* the scenario's row a negative Z_SCORE (about -3.33), a P_VALUE above 0.999,
\* IS_STATISTICALLY_SIGNIFICANT = false and COLOR = gray.
C4_ScenarioNotSignificantGray ==
  (op = "process_data" /\ err = "ok") =>
    \A i \in 1..Len(ABTable) :
      IsScenarioRow(ABTable[i]) =>
        /\ AboutMinus333(ABTable[i]["Z_SCORE"])
        /\ ABTable[i]["P_VALUE"].v > 999000
        /\ ABTable[i]["IS_STATISTICALLY_SIGNIFICANT"] = FALSE
        /\ ABTable[i]["COLOR"] = GRAY

\* process_data has returned a table that holds the scenario's row.
C4_Witness ==
  /\ op = "process_data"
  /\ err = "ok"
  /\ \E i \in 1..Len(ABTable) :
       IsScenarioRow(ABTable[i]) /\ ABTable[i]["COLOR"] = GRAY

JoinDone == op = "join_control_to_variant"

\* The wide row w is the treatment part of the joined row x.
FromWideRow(x, w) ==
  /\ x["VARIANT_NAME"] = w["VARIANT_NAME"]
  /\ x["VARIANT_DEFAULT"] = w["VARIANT_DEFAULT"]
  /\ x["KPI"] = w["KPI"]
  /\ x["mean_EXP"] = w["mean"]
  /\ x["var_EXP"] = w["var"]
  /\ x["count_EXP"] = w["count"]

HasControl(w) ==
  \E j \in 1..Len(kpi) : kpi[j]["VARIANT_DEFAULT"] = 1 /\ kpi[j]["KPI"] = w["KPI"]

\* C5: join_control_to_variant is a left join on KPI: every wide row with
\* VARIANT_DEFAULT = 0 appears in the output, and one whose metric has no row
\* with VARIANT_DEFAULT = 1 is kept, once, with null mean_CONTROL,
\* var_CONTROL and count_CONTROL.
C5_LeftJoinKeepsTreatmentRows ==
  JoinDone =>
    \A i \in 1..Len(kpi) :
      kpi[i]["VARIANT_DEFAULT"] = 0 =>
        LET hits == {j \in 1..Len(heap[joined]) : FromWideRow(heap[joined][j], kpi[i])}
        IN  /\ hits # {}
            /\ ~HasControl(kpi[i]) =>
                 /\ Cardinality(hits) = 1
                 /\ \A j \in hits :
                      /\ heap[joined][j]["mean_CONTROL"] = NaN
                      /\ heap[joined][j]["var_CONTROL"] = NaN
                      /\ heap[joined][j]["count_CONTROL"] = NaN

\* The join has kept a treatment row whose metric has no control row, next
\* to a treatment row that found its control.
C5_Witness ==
  /\ JoinDone
  /\ \E i \in 1..Len(heap[joined]) : IsNaN(heap[joined][i]["mean_CONTROL"])
  /\ \E i \in 1..Len(heap[joined]) : IsFin(heap[joined][i]["mean_CONTROL"])

\* C6: join_control_to_variant never emits more than one output row for the
\* same (treatment variant, metric) pair, also when the metric has more than
\* one control row (the join has no error to raise instead).
C6_OneRowPerVariantAndMetric ==
  JoinDone =>
    \A i, j \in 1..Len(heap[joined]) :
      ( /\ heap[joined][i]["VARIANT_NAME"] = heap[joined][j]["VARIANT_NAME"]
        /\ heap[joined][i]["KPI"] = heap[joined][j]["KPI"] ) => i = j

\* C7: for a joined row with null control statistics, process_df and then
\* process_data complete without raising and keep the row, with null
\* POOLED_VARIANCE, Z_SCORE, TREATMENT_UPLIFT, P_VALUE, UPLIFT_UPPER_CI and
\* UPLIFT_LOWER_CI, and COLOR gray.
C7_NullControlPropagates ==
  (op = "process_data" /\ HasCols(ABTable, EngineInputCols)) =>
    /\ err = "ok"
    /\ Len(ABTable) = Len(heap[joined])
    /\ \A i \in 1..Len(ABTable) :
         NullControl(ABTable[i]) =>
           /\ \A c \in {"POOLED_VARIANCE", "Z_SCORE", "TREATMENT_UPLIFT", "P_VALUE",
                        "UPLIFT_UPPER_CI", "UPLIFT_LOWER_CI"} : ABTable[i][c] = NaN
           /\ ABTable[i]["IS_STATISTICALLY_SIGNIFICANT"] = FALSE
           /\ ABTable[i]["COLOR"] = GRAY

\* process_data has returned a table with a row whose control is null.
C7_Witness ==
  /\ op = "process_data"
  /\ err = "ok"
  /\ \E i \in 1..Len(ABTable) :
       /\ NullControl(ABTable[i])
       /\ IsFin(ABTable[i]["TREATMENT_MEAN"])
       /\ ABTable[i]["COLOR"] = GRAY

\* The row's inputs to the interval are finite: finite means, a non-negative
\* _POOLED_VARIANCE, positive counts and a control mean that is not zero.
FiniteInputs(x) ==
  /\ IsFin(x["TREATMENT_MEAN"])
  /\ IsFin(x["CONTROL_MEAN"]) /\ x["CONTROL_MEAN"].v # 0
  /\ IsFin(x["_POOLED_VARIANCE"]) /\ x["_POOLED_VARIANCE"].v >= 0
  /\ IsFin(x["TREATMENT_USERS"]) /\ x["TREATMENT_USERS"].v > 0
  /\ IsFin(x["CONTROL_USERS"]) /\ x["CONTROL_USERS"].v > 0

\* C8: after calculate_uplift_confidence_interval at any confidence level in
\* (0, 1), every row with finite inputs has UPLIFT_LOWER_CI <= UPLIFT_UPPER_CI.
C8_LowerAtMostUpper ==
  (op \in {"calculate_uplift_confidence_interval", "process_data"} /\ err = "ok") =>
    \A i \in 1..Len(ABTable) :
      FiniteInputs(ABTable[i]) =>
        /\ IsFin(ABTable[i]["UPLIFT_LOWER_CI"])
        /\ IsFin(ABTable[i]["UPLIFT_UPPER_CI"])
        /\ ABTable[i]["UPLIFT_LOWER_CI"].v <= ABTable[i]["UPLIFT_UPPER_CI"].v

\* C9: a call of process_data or process_df that fails on a missing column
\* has added no column: the processor's table is what it was before the call.
C9_FailedCallLeavesTable ==
  [][ /\ (op' = "process_data" /\ err' = "KeyError") => heap'[ab] = heap[ab]
      /\ (op' = "process_df" /\ err' = "KeyError") => heap'[dfp] = heap[dfp] ]_vars

====
